---- MODULE Spec2Model ----
(***************************************************************************)
(* Knowledge ledger of bio-architect: the knowledge, knowledge_tags and    *)
(* knowledge_links tables of the SQLite store, the five foreign tables a   *)
(* link can point into, and the create / supersede commands of the two     *)
(* front ends that write them:                                             *)
(*   scripts/knowledge.py        over src/databases/repositories/knowledge *)
(*   cli/databases/knowledge.py  over src/databases/datatypes/knowledge    *)
(* Reads (get_by_id, get_active, list_active, ...) are pure queries over   *)
(* the tables and are operators.                                           *)
(* The import verticals (DNA, bloodwork, supplement labels, protocols) of  *)
(* cli/databases over src/databases/datatypes write the rows of `tables`   *)
(* through one SQLModel session each.                                      *)
(***************************************************************************)
EXTENDS Integers, Sequences, FiniteSets, TLC

VARIABLES knowledge, knowledge_tags, knowledge_links, targets, tables, last

vars == <<knowledge, knowledge_tags, knowledge_links, targets, tables, last>>

(* ---------------------------- bounds ----------------------------------- *)

\* identifiers (UUIDs) the inputs are drawn from
MaxId == 3
\* total number of rows the store may hold over all tables
MaxRows == 3
\* wall-clock readings datetime.now() can return
MaxTime == 2
\* longest tag list / link list of one JSON document
MaxTags == 2
MaxLinks == 2
\* rows the foreign tables may hold in total
MaxTargets == 2

Ids == 1..MaxId
Times == 1..MaxTime

(* ---------------------------- data model ------------------------------- *)

\* Optional[UUID] = None, and SQL NULL in supersedes_id
NULL == 0

\* the value a lookup returns when no row matches
None == [absent |-> TRUE]

ACTIVE == "active"
DEPRECATED == "deprecated"
KnowledgeStatus == {ACTIVE, DEPRECATED}

KnowledgeType == {"insight", "recommendation", "contraindication", "memory"}

LinkType == {"snp", "biomarker", "ingredient", "supplement", "protocol", "knowledge"}

\* the tables of init_schema a link can point into, other than knowledge
ForeignTables == {"snps", "biomarkers", "ingredients", "supplement_labels", "supplement_protocols"}

\* the tables the import verticals write, parents before children
ImportTables ==
    {"dna_tests", "snps",
     "lab_reports", "panels", "biomarkers",
     "supplement_labels", "proprietary_blends", "ingredients",
     "supplement_protocols", "protocol_supplements"}

\* the validator with its two comparisons made inclusive
validate_confidence_exclusive(v) == ~(v <= 0 \/ v >= 10)

\* confidence in tenths; the validator accepts 0..10
validate_confidence(v) == ~(v < 0 \/ v > 10)

\* JSON documents the commands are given
TagValues == {"a", "b"}
InputTypes == {"insight"}
InputSummaries == {"s"}
InputContents == {"c"}
InputConfidences == {8, 11}
InputReasons == {"r"}
\* "supersedes_id" of a document: absent, or the id the first entry got
InputSupersedes == {NULL, 1}

SeqsUpTo(S, n) == UNION {[1..k -> S] : k \in 0..n}

LinkData == [link_type : LinkType, target_id : Ids]

\* the part of a JSON document that becomes the Knowledge model
JsonFact ==
    [type : InputTypes, summary : InputSummaries, content : InputContents,
     supersedes_id : InputSupersedes, supersession_reason : InputReasons]

JsonTags == SeqsUpTo(TagValues, MaxTags)
JsonLinks == SeqsUpTo(LinkData, MaxLinks)

Json(fact, confidence, tags, links) ==
    [type |-> fact.type, summary |-> fact.summary, content |-> fact.content,
     confidence |-> confidence, supersedes_id |-> fact.supersedes_id,
     supersession_reason |-> fact.supersession_reason,
     tags |-> tags, links |-> links]

(* ---------------------------- the store -------------------------------- *)

IdsOf(rows) == {rows[i].id : i \in 1..Len(rows)}

TargetCount == Cardinality({<<t, i>> \in ForeignTables \X Ids : i \in targets[t]})

RowCount == Len(knowledge) + Len(knowledge_tags) + Len(knowledge_links)

\* uuid4(): an identifier no knowledge row carries
FreshIds == Ids \ IdsOf(knowledge)
uuid4 == CHOOSE i \in FreshIds : \A j \in FreshIds : i <= j

\* Knowledge(...) as built by parse_knowledge_json: fresh id, status ACTIVE,
\* created_at = datetime.now()
Knowledge(data, now) ==
    [id |-> uuid4, type |-> data.type, status |-> ACTIVE,
     summary |-> data.summary, content |-> data.content,
     confidence |-> data.confidence, supersedes_id |-> data.supersedes_id,
     supersession_reason |-> data.supersession_reason, created_at |-> now]

\* parse_knowledge_json raises ValueError when the model rejects the data
parse_knowledge_json_ok(data) == validate_confidence(data.confidence)

KnowledgeTag(knowledge_id, tag) == [knowledge_id |-> knowledge_id, tag |-> tag]

KnowledgeLink(knowledge_id, link) ==
    [knowledge_id |-> knowledge_id, link_type |-> link.link_type,
     target_id |-> link.target_id]

ParsedTags(data, id) == [i \in 1..Len(data.tags) |-> KnowledgeTag(id, data.tags[i])]
ParsedLinks(data, id) == [i \in 1..Len(data.links) |-> KnowledgeLink(id, data.links[i])]

\* _row_to_knowledge that does not read the supersedes_id column
_row_to_knowledge_without_reference(row) ==
    [id |-> row.id, type |-> row.type, status |-> row.status,
     summary |-> row.summary, content |-> row.content,
     confidence |-> row.confidence, supersedes_id |-> NULL,
     supersession_reason |-> row.supersession_reason,
     created_at |-> row.created_at]

\* the row a SELECT returns, as a Knowledge model
_row_to_knowledge(row) ==
    [id |-> row.id, type |-> row.type, status |-> row.status,
     summary |-> row.summary, content |-> row.content,
     confidence |-> row.confidence,
     supersedes_id |-> IF row.supersedes_id # NULL THEN row.supersedes_id ELSE NULL,
     supersession_reason |-> row.supersession_reason,
     created_at |-> row.created_at]

\* get_by_id with the WHERE clause lost: the first row of the table
get_by_id_any_row(knowledge_id) ==
    IF Len(knowledge) = 0 THEN None ELSE _row_to_knowledge(knowledge[1])

\* get_by_id that reads active rows only
get_by_id_active_only(knowledge_id) ==
    LET rows == SelectSeq(knowledge, LAMBDA r : r.id = knowledge_id /\ r.status = ACTIVE)
    IN  IF Len(rows) = 0 THEN None ELSE _row_to_knowledge(rows[1])

\* SELECT ... FROM knowledge WHERE id = ?   (fetchone)
get_by_id(knowledge_id) ==
    LET rows == SelectSeq(knowledge, LAMBDA r : r.id = knowledge_id)
    IN  IF Len(rows) = 0 THEN None ELSE _row_to_knowledge(rows[1])

\* session.get that loads active entries only
get_knowledge_active_only(knowledge_id) ==
    IF \E i \in 1..Len(knowledge) :
          knowledge[i].id = knowledge_id /\ knowledge[i].status = ACTIVE
    THEN LET i == CHOOSE i \in 1..Len(knowledge) : knowledge[i].id = knowledge_id
         IN  knowledge[i]
    ELSE None

\* session.get(Knowledge, knowledge_id)
get_knowledge(knowledge_id) ==
    IF \E i \in 1..Len(knowledge) : knowledge[i].id = knowledge_id
    THEN LET i == CHOOSE i \in 1..Len(knowledge) : knowledge[i].id = knowledge_id
         IN  knowledge[i]
    ELSE None

Permutations_of(s) ==
    LET n == Len(s)
        Bij == {p \in [1..n -> 1..n] : \A i, j \in 1..n : p[i] = p[j] => i = j}
    IN  {[i \in 1..n |-> s[p[i]]] : p \in Bij}

\* SELECT ... WHERE status = 'active' ORDER BY created_at DESC: every order
\* of the active rows that is descending in created_at (ties are unordered)
get_active ==
    LET rows == SelectSeq(knowledge, LAMBDA r : r.status = ACTIVE)
    IN  {[i \in 1..Len(s) |-> _row_to_knowledge(s[i])] :
            s \in {p \in Permutations_of(rows) :
                     \A i, j \in 1..Len(p) : i < j => p[i].created_at >= p[j].created_at}}

\* select(Knowledge).where(status == ACTIVE), no ORDER BY: the rows in the
\* order SQLite scans them, which is the order they were inserted in
list_active == SelectSeq(knowledge, LAMBDA r : r.status = ACTIVE)

\* the rows of s without repeats, each at its first position (DISTINCT)
Distinct(s) ==
    LET F[i \in 0..Len(s)] ==
            IF i = 0 THEN <<>>
            ELSE IF \E j \in 1..(i - 1) : s[j] = s[i] THEN F[i - 1]
                 ELSE Append(F[i - 1], s[i])
    IN  F[Len(s)]

\* every order of the rows that is descending in created_at
newest_first(rows) ==
    {p \in Permutations_of(rows) :
        \A i, j \in 1..Len(p) : i < j => p[i].created_at >= p[j].created_at}

\* FROM knowledge k JOIN knowledge_tags kt ON k.id = kt.knowledge_id
\* WHERE kt.tag = ?: one k row for every matching tag row
join_tags(tag) ==
    LET hits == SelectSeq(knowledge_tags,
                          LAMBDA kt : kt.tag = tag /\ kt.knowledge_id \in IdsOf(knowledge))
    IN  [i \in 1..Len(hits) |->
            knowledge[CHOOSE n \in 1..Len(knowledge) : knowledge[n].id = hits[i].knowledge_id]]

\* get_by_tag with DISTINCT left out
get_by_tag_repeating(tag) ==
    {[i \in 1..Len(s) |-> _row_to_knowledge(s[i])] : s \in newest_first(join_tags(tag))}

\* SELECT DISTINCT k.* ... WHERE kt.tag = ? ORDER BY k.created_at DESC
get_by_tag(tag) ==
    {[i \in 1..Len(s) |-> _row_to_knowledge(s[i])] :
        s \in newest_first(Distinct(join_tags(tag)))}

\* datatypes get_by_tag: the distinct knowledge_id of the matching tag rows,
\* then session.get for each, skipping an id that has no entry
datatypes_get_by_tag(tag) ==
    LET hits == SelectSeq(knowledge_tags, LAMBDA kt : kt.tag = tag)
        tag_results == Distinct([i \in 1..Len(hits) |-> hits[i].knowledge_id])
        found == SelectSeq(tag_results, LAMBDA id : get_knowledge(id) # None)
    IN  [i \in 1..Len(found) |-> get_knowledge(found[i])]

\* FROM knowledge k JOIN knowledge_links kl ON k.id = kl.knowledge_id
\* WHERE kl.link_type = ? AND kl.target_id = ?
join_links(link_type, target_id) ==
    LET hits == SelectSeq(knowledge_links,
                          LAMBDA kl : /\ kl.link_type = link_type
                                      /\ kl.target_id = target_id
                                      /\ kl.knowledge_id \in IdsOf(knowledge))
    IN  [i \in 1..Len(hits) |->
            knowledge[CHOOSE n \in 1..Len(knowledge) : knowledge[n].id = hits[i].knowledge_id]]

\* get_by_link matching the target id alone
get_by_link_any_kind(link_type, target_id) ==
    LET hits == SelectSeq(knowledge_links,
                          LAMBDA kl : /\ kl.target_id = target_id
                                      /\ kl.knowledge_id \in IdsOf(knowledge))
        rows == [i \in 1..Len(hits) |->
                    knowledge[CHOOSE n \in 1..Len(knowledge) :
                                 knowledge[n].id = hits[i].knowledge_id]]
    IN  {[i \in 1..Len(s) |-> _row_to_knowledge(s[i])] : s \in newest_first(Distinct(rows))}

\* SELECT DISTINCT k.* ... WHERE kl.link_type = ? AND kl.target_id = ?
\* ORDER BY k.created_at DESC
get_by_link(link_type, target_id) ==
    {[i \in 1..Len(s) |-> _row_to_knowledge(s[i])] :
        s \in newest_first(Distinct(join_links(link_type, target_id)))}

\* datatypes get_linked_to: the distinct knowledge_id of the matching link
\* rows, then session.get for each
get_linked_to(link_type, target_id) ==
    LET hits == SelectSeq(knowledge_links,
                          LAMBDA kl : kl.link_type = link_type /\ kl.target_id = target_id)
        link_results == Distinct([i \in 1..Len(hits) |-> hits[i].knowledge_id])
        found == SelectSeq(link_results, LAMBDA id : get_knowledge(id) # None)
    IN  [i \in 1..Len(found) |-> get_knowledge(found[i])]

\* the place of a text value in SQLite's BINARY collation, for the values
\* the tag and link_type columns hold here
collate(text) ==
    CASE text = "a" -> 1
      [] text = "b" -> 2
      [] text = "biomarker" -> 3
      [] text = "ingredient" -> 4
      [] text = "knowledge" -> 5
      [] text = "protocol" -> 6
      [] text = "snp" -> 7
      [] text = "supplement" -> 8

\* get_tags_by_knowledge with ORDER BY left out
get_tags_by_knowledge_unordered(knowledge_id) ==
    {SelectSeq(knowledge_tags, LAMBDA kt : kt.knowledge_id = knowledge_id)}

\* SELECT ... FROM knowledge_tags WHERE knowledge_id = ? ORDER BY tag
get_tags_by_knowledge(knowledge_id) ==
    LET rows == SelectSeq(knowledge_tags, LAMBDA kt : kt.knowledge_id = knowledge_id)
    IN  {p \in Permutations_of(rows) :
            \A i, j \in 1..Len(p) : i < j => collate(p[i].tag) <= collate(p[j].tag)}

\* SELECT ... FROM knowledge_links WHERE knowledge_id = ? ORDER BY link_type
get_links_by_knowledge(knowledge_id) ==
    LET rows == SelectSeq(knowledge_links, LAMBDA kl : kl.knowledge_id = knowledge_id)
    IN  {p \in Permutations_of(rows) :
            \A i, j \in 1..Len(p) : i < j => collate(p[i].link_type) <= collate(p[j].link_type)}

\* select(KnowledgeTag).where(knowledge_id == ...).order_by(KnowledgeTag.tag)
get_tags_for_knowledge(knowledge_id) == get_tags_by_knowledge(knowledge_id)

\* select(KnowledgeLink).where(knowledge_id == ...).order_by(KnowledgeLink.link_type)
get_links_for_knowledge(knowledge_id) == get_links_by_knowledge(knowledge_id)

\* table_map with the supplement and protocol entries exchanged
table_map_exchanged(link_type) ==
    CASE link_type = "snp" -> "snps"
      [] link_type = "biomarker" -> "biomarkers"
      [] link_type = "ingredient" -> "ingredients"
      [] link_type = "supplement" -> "supplement_protocols"
      [] link_type = "protocol" -> "supplement_labels"
      [] link_type = "knowledge" -> "knowledge"

table_map(link_type) ==
    CASE link_type = "snp" -> "snps"
      [] link_type = "biomarker" -> "biomarkers"
      [] link_type = "ingredient" -> "ingredients"
      [] link_type = "supplement" -> "supplement_labels"
      [] link_type = "protocol" -> "supplement_protocols"
      [] link_type = "knowledge" -> "knowledge"

\* the ids of the rows of a table
TableIds(table) == IF table = "knowledge" THEN IdsOf(knowledge) ELSE targets[table]

\* SELECT 1 FROM {table} WHERE id = ?
validate_link_target_exists(link_type, target_id) ==
    target_id \in TableIds(table_map(link_type))

\* the store with foreign_keys left OFF
supersedes_fk_unenforced(rows, row) == TRUE

\* FOREIGN KEY (supersedes_id) REFERENCES knowledge(id), foreign_keys = ON.
\* A document cannot name the id uuid4() is about to return, so an id that
\* no stored row carries is a missing parent.
supersedes_fk_ok(rows, row) ==
    row.supersedes_id = NULL \/ row.supersedes_id \in IdsOf(rows)

\* INSERT INTO knowledge
insert_knowledge(rows, k) == Append(rows, k)

\* the UPDATE never issued
mark_deprecated_skipped(rows, old_id) == rows

\* the UPDATE flipping the status instead of setting it
mark_deprecated_flipped(rows, old_id) ==
    [i \in 1..Len(rows) |->
        IF rows[i].id = old_id
        THEN [rows[i] EXCEPT !.status = IF @ = DEPRECATED THEN ACTIVE ELSE DEPRECATED]
        ELSE rows[i]]

\* the UPDATE without its WHERE clause
mark_deprecated_every_row(rows, old_id) ==
    [i \in 1..Len(rows) |-> [rows[i] EXCEPT !.status = DEPRECATED]]

\* the UPDATE also overwriting the reason of the old row
mark_deprecated_with_reason(rows, old_id) ==
    [i \in 1..Len(rows) |->
        IF rows[i].id = old_id
        THEN [rows[i] EXCEPT !.status = DEPRECATED, !.supersession_reason = "superseded"]
        ELSE rows[i]]

\* UPDATE knowledge SET status = 'deprecated' WHERE id = ?
mark_deprecated(rows, old_id) ==
    [i \in 1..Len(rows) |->
        IF rows[i].id = old_id THEN [rows[i] EXCEPT !.status = DEPRECATED] ELSE rows[i]]

\* supersede that also points the old row at its replacement
repository_supersede_back_reference(rows, old_id, new_knowledge) ==
    LET inserted == insert_knowledge(rows, [new_knowledge EXCEPT !.supersedes_id = old_id])
    IN  [i \in 1..Len(inserted) |->
            IF inserted[i].id = old_id
            THEN [inserted[i] EXCEPT !.status = DEPRECATED,
                                     !.supersedes_id = new_knowledge.id]
            ELSE inserted[i]]

\* repositories/knowledge.py supersede: INSERT the new row with
\* supersedes_id = old_id, UPDATE the old row, one commit
repository_supersede(rows, old_id, new_knowledge) ==
    mark_deprecated(
        insert_knowledge(rows, [new_knowledge EXCEPT !.supersedes_id = old_id]),
        old_id)

\* the Knowledge model repositories/knowledge.py supersede returns
supersede_returns(old_id, new_knowledge) ==
    [new_knowledge EXCEPT !.supersedes_id = old_id]

\* save_knowledge that retires the entry the new one refers to
save_knowledge_retiring(rows, k) ==
    Append([i \in 1..Len(rows) |->
               IF rows[i].id = k.supersedes_id THEN [rows[i] EXCEPT !.status = DEPRECATED]
               ELSE rows[i]], k)

\* datatypes/knowledge/repository.py save_knowledge, the knowledge table part
save_knowledge(rows, k) == Append(rows, k)

\* supersede writing the new entry over the old row instead of adding a row
supersede_in_place(rows, old_id, new_knowledge) ==
    [i \in 1..Len(rows) |->
        IF rows[i].id = old_id THEN [new_knowledge EXCEPT !.supersedes_id = old_id]
        ELSE rows[i]]

\* supersede that leaves new_knowledge.supersedes_id as the document set it
supersede_keeping_reference(rows, old_id, new_knowledge) ==
    Append(mark_deprecated(rows, old_id), new_knowledge)

\* the last element of a non-empty list
Last(rows) == rows[Len(rows)]

\* datatypes/knowledge/repository.py supersede, the knowledge table part
supersede(rows, old_id, new_knowledge) ==
    Append(mark_deprecated(rows, old_id),
           [new_knowledge EXCEPT !.supersedes_id = old_id])

\* the store with foreign_keys left OFF, for the owner of a tag or a link
owner_fk_unenforced(rows, knowledge_id) == TRUE

\* FOREIGN KEY (knowledge_id) REFERENCES knowledge(id), foreign_keys = ON
owner_fk_ok(rows, knowledge_id) == knowledge_id \in IdsOf(rows)

\* INSERT INTO knowledge_tags; sqlite3.IntegrityError and no row when the
\* owner is not in the knowledge table
insert_tag(facts, rows, tag) ==
    IF owner_fk_ok(facts, tag.knowledge_id) THEN Append(rows, tag) ELSE rows

\* INSERT INTO knowledge_links, likewise
insert_link(facts, rows, link) ==
    IF owner_fk_ok(facts, link.knowledge_id) THEN Append(rows, link) ELSE rows

\* for tag in tags: insert_tag(tag)
insert_tags(facts, rows, tags) ==
    LET F[i \in 0..Len(tags)] ==
            IF i = 0 THEN rows ELSE insert_tag(facts, F[i - 1], tags[i])
    IN  F[Len(tags)]

\* for link in links: insert_link(link)
insert_links(facts, rows, links) ==
    LET F[i \in 0..Len(links)] ==
            IF i = 0 THEN rows ELSE insert_link(facts, F[i - 1], links[i])
    IN  F[Len(links)]

\* the tag stored under the owner it was supplied with
tag_with_new_id_kept(tag, new_id) == tag

\* KnowledgeTag(knowledge_id=new_knowledge.id, tag=tag.tag)
tag_with_new_id(tag, new_id) == KnowledgeTag(new_id, tag.tag)

\* KnowledgeLink(knowledge_id=new_knowledge.id, link_type=..., target_id=...)
link_with_new_id(link, new_id) == KnowledgeLink(new_id, link)

tags_with_new_id(tags, new_id) == [i \in 1..Len(tags) |-> tag_with_new_id(tags[i], new_id)]
links_with_new_id(links, new_id) == [i \in 1..Len(links) |-> link_with_new_id(links[i], new_id)]

Prefix(s, n) == SubSeq(s, 1, IF n < Len(s) THEN n ELSE Len(s))

\* what the last command did: its kind, its error, the id of the fact it
\* built, the id it was to supersede and the status it found that entry in,
\* the confidence of the document it was given and, once it has written a
\* row, the supersedes_id of the entry the repository handed back, the
\* Knowledge model the command printed and the tags and links of that
\* document
Outcome(op, error, id, old_id, old_status, confidence, returned, fact, tags, links) ==
    [op |-> op, error |-> error, id |-> id, old_id |-> old_id,
     old_status |-> old_status, confidence |-> confidence,
     supersedes_id |-> returned, fact |-> fact, tags |-> tags, links |-> links]

Given(done, list) == IF done >= 1 THEN list ELSE <<>>

Init ==
    /\ knowledge = <<>>
    /\ knowledge_tags = <<>>
    /\ knowledge_links = <<>>
    /\ targets = [t \in ForeignTables |-> {}]
    /\ tables = [t \in ImportTables |-> <<>>]
    /\ last = Outcome("init", "none", NULL, NULL, "", NULL, NULL, None, <<>>, <<>>)

Unchanged_store == UNCHANGED <<knowledge, knowledge_tags, knowledge_links, targets>>

\* the number of store writes of a command with these tags and links
Writes(tags, links) == 1 + Len(tags) + Len(links)

Fits(tags, links) == RowCount + Writes(tags, links) <= MaxRows

\* the validation loop left out
links_valid_unchecked(links) == TRUE

\* for link in links: validate_link_target_exists(...)
links_valid(links) ==
    \A i \in 1..Len(links) :
        validate_link_target_exists(links[i].link_type, links[i].target_id)

Rejected(op, error, old_id, old_status, confidence) ==
    /\ Unchanged_store
    /\ last' = Outcome(op, error, uuid4, old_id, old_status, confidence, NULL, None, <<>>, <<>>)

\* the JSON documents the commands of the ledger are run with
Documents ==
    [fact |-> JsonFact, confidence |-> InputConfidences, tags |-> JsonTags,
     link |-> LinkData, max_links |-> MaxLinks, max_facts |-> MaxId]

\* the confidences parse_knowledge_json accepts, and the link lists whose
\* every target passes validate_link_target_exists
ValidConfidences(D) == {c \in D.confidence : parse_knowledge_json_ok([confidence |-> c])}
ValidLinkData(D) == {l \in D.link : links_valid(<<l>>)}
ValidLinks(D) == SeqsUpTo(ValidLinkData(D), D.max_links)

\* one of the links of some document has no target
LinkCheckFails(D) == ~(\A ls \in SeqsUpTo(D.link, D.max_links) : links_valid(ls))

(* -------------------- scripts/knowledge.py ----------------------------- *)

\* cmd_add: parse, validate the links, then insert_knowledge, insert_tag,
\* insert_link, each committing its own row.  failAt = n > 0: the n-th
\* write raises (sqlite3.Error) and the command ends there.
add(D) ==
    /\ FreshIds # {}
    /\ Len(knowledge) < D.max_facts
    /\ UNCHANGED tables
    /\ \/ \E confidence \in D.confidence \ ValidConfidences(D) :
              Rejected("create", "ValidationError", NULL, "", confidence)
       \/ \E confidence \in ValidConfidences(D) :
              LinkCheckFails(D) /\ Rejected("create", "LinkTargetNotFound", NULL, "", confidence)
       \/ /\ RowCount < MaxRows
          /\ \E confidence \in ValidConfidences(D), ls \in ValidLinks(D),
                fact \in D.fact, ts \in D.tags, now \in Times :
              /\ Fits(ts, ls)
              /\ \E failAt \in 0..Writes(ts, ls) :
                  LET data == Json(fact, confidence, ts, ls)
                      k == Knowledge(data, now)
                      tags == ParsedTags(data, k.id)
                      links == ParsedLinks(data, k.id)
                      fail == IF ~supersedes_fk_ok(knowledge, k) THEN 1 ELSE failAt
                      done == IF fail = 0 THEN Writes(ts, ls) ELSE fail - 1
                  IN  /\ knowledge' = IF done >= 1 THEN insert_knowledge(knowledge, k)
                                      ELSE knowledge
                      /\ knowledge_tags' =
                             insert_tags(knowledge', knowledge_tags, Prefix(tags, done - 1))
                      /\ knowledge_links' =
                             insert_links(knowledge', knowledge_links,
                                          Prefix(links, done - 1 - Len(tags)))
                      /\ UNCHANGED targets
                      /\ last' = Outcome("create",
                                         IF fail = 0 THEN "none" ELSE "StoreError",
                                         k.id, NULL, "", confidence,
                                         IF done >= 1 THEN k.supersedes_id ELSE NULL,
                                         IF done >= 1 THEN k ELSE None,
                                         Given(done, ts), Given(done, ls))

cmd_add == add(Documents)

\* scripts/knowledge.py cmd_supersede: look the old entry up, parse, validate
\* the links, repo.supersede (one commit), then insert_tag and insert_link
\* for the new entry, each committing its own row
scripts_supersede(D) ==
    /\ FreshIds # {}
    /\ Len(knowledge) < D.max_facts
    /\ UNCHANGED tables
    /\ \E old_id \in Ids :
        IF get_by_id(old_id) = None
        THEN \E confidence \in D.confidence :
                 Rejected("supersede", "NotFound", old_id, "", confidence)
        ELSE
          \/ \E confidence \in D.confidence \ ValidConfidences(D) :
                 Rejected("supersede", "ValidationError", old_id,
                          get_by_id(old_id).status, confidence)
          \/ \E confidence \in ValidConfidences(D) :
                 /\ LinkCheckFails(D)
                 /\ Rejected("supersede", "LinkTargetNotFound", old_id,
                             get_by_id(old_id).status, confidence)
          \/ /\ RowCount < MaxRows
             /\ \E confidence \in ValidConfidences(D), ls \in ValidLinks(D),
                   fact \in D.fact, ts \in D.tags, now \in Times :
                 /\ Fits(ts, ls)
                 /\ \E failAt \in 0..Writes(ts, ls) :
                     LET data == Json(fact, confidence, ts, ls)
                         k == Knowledge(data, now)
                         tags == tags_with_new_id(ParsedTags(data, k.id), k.id)
                         links == links_with_new_id(ParsedLinks(data, k.id), k.id)
                         done == IF failAt = 0 THEN Writes(ts, ls) ELSE failAt - 1
                     IN  /\ knowledge' =
                                IF done >= 1
                                THEN repository_supersede(knowledge, old_id, k)
                                ELSE knowledge
                         /\ knowledge_tags' =
                                insert_tags(knowledge', knowledge_tags, Prefix(tags, done - 1))
                         /\ knowledge_links' =
                                insert_links(knowledge', knowledge_links,
                                             Prefix(links, done - 1 - Len(tags)))
                         /\ UNCHANGED targets
                         /\ last' = Outcome("supersede",
                                            IF failAt = 0 THEN "none" ELSE "StoreError",
                                            k.id, old_id, get_by_id(old_id).status,
                                            confidence,
                                            IF done >= 1
                                            THEN supersede_returns(old_id, k).supersedes_id
                                            ELSE NULL,
                                            IF done >= 1 THEN supersede_returns(old_id, k)
                                            ELSE None,
                                            Given(done, ts), Given(done, ls))

scripts_cmd_supersede == scripts_supersede(Documents)

(* -------------------- cli/databases/knowledge.py ----------------------- *)

\* cmd_create: parse, validate the links, repo.save_knowledge: the entry, its
\* tags and its links are added to the session and committed once.
\* failed: the flush or the commit raises, and the session is rolled back.
create(D) ==
    /\ FreshIds # {}
    /\ Len(knowledge) < D.max_facts
    /\ UNCHANGED tables
    /\ \/ \E confidence \in D.confidence \ ValidConfidences(D) :
              Rejected("create", "ValidationError", NULL, "", confidence)
       \/ \E confidence \in ValidConfidences(D) :
              LinkCheckFails(D) /\ Rejected("create", "LinkTargetNotFound", NULL, "", confidence)
       \/ /\ RowCount < MaxRows
          /\ \E confidence \in ValidConfidences(D), ls \in ValidLinks(D),
                fact \in D.fact, ts \in D.tags, now \in Times, failed \in BOOLEAN :
              /\ Fits(ts, ls)
              /\ LET data == Json(fact, confidence, ts, ls)
                     k == Knowledge(data, now)
                     tags == ParsedTags(data, k.id)
                     links == ParsedLinks(data, k.id)
                     ok == supersedes_fk_ok(knowledge, k) /\ ~failed
                     done == IF ok THEN Writes(ts, ls) ELSE 0
                 IN  /\ knowledge' = IF ok THEN save_knowledge(knowledge, k)
                                     ELSE knowledge
                     /\ knowledge_tags' =
                            IF ok THEN insert_tags(knowledge', knowledge_tags, tags)
                            ELSE knowledge_tags
                     /\ knowledge_links' =
                            IF ok THEN insert_links(knowledge', knowledge_links, links)
                            ELSE knowledge_links
                     /\ UNCHANGED targets
                     /\ last' = Outcome("create", IF ok THEN "none" ELSE "StoreError",
                                        k.id, NULL, "", confidence,
                                        IF ok THEN k.supersedes_id ELSE NULL,
                                        IF ok THEN k ELSE None,
                                        Given(done, ts), Given(done, ls))

cmd_create == create(Documents)

\* cli/databases/knowledge.py cmd_supersede: look the old entry up, parse,
\* validate the links, repo.supersede: everything in one commit
cli_supersede(D) ==
    /\ FreshIds # {}
    /\ Len(knowledge) < D.max_facts
    /\ UNCHANGED tables
    /\ \E old_id \in Ids :
        IF get_knowledge(old_id) = None
        THEN \E confidence \in D.confidence :
                 Rejected("supersede", "NotFound", old_id, "", confidence)
        ELSE
          \/ \E confidence \in D.confidence \ ValidConfidences(D) :
                 Rejected("supersede", "ValidationError", old_id,
                          get_knowledge(old_id).status, confidence)
          \/ \E confidence \in ValidConfidences(D) :
                 /\ LinkCheckFails(D)
                 /\ Rejected("supersede", "LinkTargetNotFound", old_id,
                             get_knowledge(old_id).status, confidence)
          \/ /\ RowCount < MaxRows
             /\ \E confidence \in ValidConfidences(D), ls \in ValidLinks(D),
                   fact \in D.fact, ts \in D.tags, now \in Times, failed \in BOOLEAN :
                 /\ Fits(ts, ls)
                 /\ LET data == Json(fact, confidence, ts, ls)
                        k == Knowledge(data, now)
                        tags == tags_with_new_id(ParsedTags(data, k.id), k.id)
                        links == links_with_new_id(ParsedLinks(data, k.id), k.id)
                        ok == ~failed
                        done == IF ok THEN Writes(ts, ls) ELSE 0
                    IN  /\ knowledge' = IF ok THEN supersede(knowledge, old_id, k)
                                        ELSE knowledge
                        /\ knowledge_tags' =
                               IF ok THEN insert_tags(knowledge', knowledge_tags, tags)
                               ELSE knowledge_tags
                        /\ knowledge_links' =
                               IF ok THEN insert_links(knowledge', knowledge_links, links)
                               ELSE knowledge_links
                        /\ UNCHANGED targets
                        /\ last' = Outcome("supersede", IF ok THEN "none" ELSE "StoreError",
                                           k.id, old_id, get_knowledge(old_id).status,
                                           confidence,
                                           IF ok THEN Last(supersede(knowledge, old_id, k)).supersedes_id
                                           ELSE NULL,
                                           IF ok THEN Last(supersede(knowledge, old_id, k))
                                           ELSE None,
                                           Given(done, ts), Given(done, ls))

cli_cmd_supersede == cli_supersede(Documents)

(* -------------------- the imports that fill the foreign tables --------- *)

\* a row of a foreign table gets its id from uuid4() as well
insert_row(table) ==
    /\ TargetCount < MaxTargets
    /\ Ids \ targets[table] # {}
    /\ LET free == Ids \ targets[table]
           id == CHOOSE i \in free : \A j \in free : i <= j
       IN  targets' = [targets EXCEPT ![table] = @ \cup {id}]
    /\ UNCHANGED <<knowledge, knowledge_tags, knowledge_links, tables>>
    /\ last' = Outcome("import", "none", NULL, NULL, "", NULL, NULL, None, <<>>, <<>>)

insert_snp == insert_row("snps")
insert_biomarker == insert_row("biomarkers")
insert_ingredient == insert_row("ingredients")
insert_label == insert_row("supplement_labels")
insert_protocol == insert_row("supplement_protocols")

Next ==
    \/ cmd_add
    \/ scripts_cmd_supersede
    \/ cmd_create
    \/ cli_cmd_supersede
    \/ insert_snp
    \/ insert_biomarker
    \/ insert_ingredient
    \/ insert_label
    \/ insert_protocol

Spec == Init /\ [][Next]_vars

(* -------------------- the parser at the edges of its input ------------- *)

\* facts the parsing specification lets the store hold
MaxParsed == 2

\* documents at and beyond the limits of the model's validators: confidence
\* below, at and above both ends of its range, empty summary, empty content
EdgeConfidences == {0 - 1, 0, 10, 11}
EdgeSummaries == {"", "s"}
EdgeContents == {"", "c"}

EdgeFact ==
    [type : InputTypes, summary : EdgeSummaries, content : EdgeContents,
     supersedes_id : InputSupersedes, supersession_reason : InputReasons]

EdgeDocuments ==
    [Documents EXCEPT !.fact = EdgeFact, !.confidence = EdgeConfidences,
                      !.max_facts = MaxParsed]

edge_cmd_add == add(EdgeDocuments)
edge_scripts_cmd_supersede == scripts_supersede(EdgeDocuments)
edge_cmd_create == create(EdgeDocuments)
edge_cli_cmd_supersede == cli_supersede(EdgeDocuments)

ParseNext ==
    \/ edge_cmd_add
    \/ edge_scripts_cmd_supersede
    \/ edge_cmd_create
    \/ edge_cli_cmd_supersede

ParseSpec == Init /\ [][ParseNext]_vars

(* ======================= the import verticals ========================== *)

\* identifiers (UUIDs) of the rows of one import table
MaxImportId == 4
\* imports the store may hold over all verticals
MaxImports == 2
\* longest child list of one parent in one document
MaxChildren == 2
\* collection dates a lab report can carry
MaxDate == 2
\* rows of one import, the parent included
MaxImportRows == 4
\* longest list of other ingredients and of blends of one label document
MaxOther == 1
MaxBlends == 1

ImportIds == 1..MaxImportId

\* args.file of an import: "" is standard input
Files == {"", "a.json", "b.json"}

\* Snp.validate_magnitude
validate_magnitude(v) == ~(v < 0 \/ v > 10)
InputMagnitudes == {3, 11}

\* the biomarker codes and ingredient codes the validators know
VALID_BIOMARKER_CODES == {"GLUCOSE", "LDL"}
validate_biomarker_code(v) == v \in VALID_BIOMARKER_CODES
InputBiomarkerCodes == {"GLUCOSE", "LDL", "glucose"}
VALID_INGREDIENT_CODES == {"VITAMIN_D"}
validate_ingredient_code(v) == v \in VALID_INGREDIENT_CODES
InputIngredientCodes == {"VITAMIN_D", "vitamin d"}
Frequency == {"daily"}
InputFrequencies == {"daily", "sometimes"}

\* the place of a code in the order Python compares the strings
code_order == <<"GLUCOSE", "LDL">>
code_index(code) == CHOOSE i \in DOMAIN code_order : code_order[i] = code

(* ---------------------------- the session ------------------------------ *)

\* FOREIGN KEY (column) REFERENCES table(id), per table
foreign_keys(table) ==
    CASE table = "snps" -> {<<"dna_test_id", "dna_tests">>}
      [] table = "panels" -> {<<"lab_report_id", "lab_reports">>}
      [] table = "biomarkers" -> {<<"panel_id", "panels">>}
      [] table = "proprietary_blends" -> {<<"supplement_label_id", "supplement_labels">>}
      [] table = "ingredients" -> {<<"supplement_label_id", "supplement_labels">>,
                                   <<"blend_id", "proprietary_blends">>}
      [] table = "protocol_supplements" -> {<<"protocol_id", "supplement_protocols">>}
      [] OTHER -> {}

\* the store takes an INSERT: the primary key is new and every foreign key
\* that is not NULL names a row
accepts(db, table, row) ==
    /\ row.id \notin IdsOf(db[table])
    /\ \A fk \in foreign_keys(table) :
          row[fk[1]] = NULL \/ row[fk[1]] \in IdsOf(db[fk[2]])

\* a session on the store: the tables as its transaction sees them, whether
\* a statement has failed, the statements sent, and the statement at which
\* the store fails for a reason of its own (0: none)
get_session(db, failAt) == [tables |-> db, error |-> FALSE, sent |-> 0, failAt |-> failAt]

\* session.add(row) as flushed: one INSERT inside the transaction
session_add(session, table, row) ==
    IF session.error THEN session
    ELSE IF session.sent + 1 = session.failAt \/ ~accepts(session.tables, table, row)
         THEN [session EXCEPT !.error = TRUE, !.sent = @ + 1]
         ELSE [session EXCEPT !.tables[table] = Append(@, row), !.sent = @ + 1]

\* for row in rows: session.add(row), then the flush
session_add_all(session, table, rows) ==
    LET F[i \in 0..Len(rows)] ==
            IF i = 0 THEN session ELSE session_add(F[i - 1], table, rows[i])
    IN  F[Len(rows)]

\* session.commit(), or the rollback when a statement raised: the transaction
\* is written as a whole or not at all
session_commit_flushed(db, session) == session.tables
session_commit(db, session) == IF session.error THEN db ELSE session.tables

(* ---------------------------- fresh rows ------------------------------- *)

\* uuid4() for the n-th new row of a table
RECURSIVE nth_unused(_, _)
nth_unused(free, n) ==
    LET least == CHOOSE i \in free : \A j \in free : i <= j
    IN  IF n = 1 THEN least ELSE nth_unused(free \ {least}, n - 1)
new_id(table, n) == nth_unused(ImportIds \ IdsOf(tables[table]), n)
has_ids(table, n) == Cardinality(ImportIds \ IdsOf(tables[table])) >= n

NoRows == [t \in ImportTables |-> <<>>]

\* the ids a caller can give a parent row: a new one or one already stored;
\* and an id other than the one given
ParentIds(table) ==
    IdsOf(tables[table]) \cup (IF has_ids(table, 1) THEN {new_id(table, 1)} ELSE {})
another(id) == (id % MaxImportId) + 1

\* what an import did: the operation, how it ended ("none": it returned),
\* what it returned, the rows it committed, and how far it got: the models
\* built before a validator raised, or the statements sent to the store
ImportOutcome(op, error, returned, rows, progress) ==
    [op |-> op, error |-> error, returned |-> returned, rows |-> rows,
     progress |-> progress]

\* a save that went to the store: committed, or raised and rolled back
Saved(db, session, returned) ==
    [tables |-> session_commit(db, session),
     error |-> IF session.error THEN "StoreError" ELSE "none",
     returned |-> IF session.error THEN "raise" ELSE returned,
     progress |-> session.sent]

\* a save or an import that ended before any statement
NotSaved(db, error, returned, progress) ==
    [tables |-> db, error |-> error, returned |-> returned, progress |-> progress]

\* the step of an import command or of a save of a repository; the commands
\* stop once the store holds MaxImports imports
CanImport ==
    Len(tables["dna_tests"]) + Len(tables["lab_reports"])
    + Len(tables["supplement_labels"]) + Len(tables["supplement_protocols"]) < MaxImports

Import(op, result, rows) ==
    /\ tables' = result.tables
    /\ UNCHANGED <<knowledge, knowledge_tags, knowledge_links, targets>>
    /\ last' = ImportOutcome(op, result.error, result.returned,
                             IF result.error = "none" /\ result.returned # "False"
                             THEN rows ELSE NoRows,
                             result.progress)

\* the rows of a parent with its children and their children, by table
Rows(parent_table, parent, child_table, children, grandchild_table, grandchildren) ==
    [t \in ImportTables |->
        IF t = parent_table THEN <<parent>>
        ELSE IF t = grandchild_table THEN grandchildren
        ELSE IF t = child_table THEN children
        ELSE <<>>]

\* the items of a list before the first one a validator refuses, given
\* which items the validator accepts
built_before_raise(s, valid) ==
    LET bad == {i \in DOMAIN s : ~valid[i]}
    IN  IF bad = {} THEN s
        ELSE Prefix(s, (CHOOSE i \in bad : \A j \in bad : i <= j) - 1)

(* ------------------------------- dna ----------------------------------- *)

DnaTest(id, source_file) == [id |-> id, source_file |-> source_file]
Snp(id, dna_test_id, magnitude) == [id |-> id, dna_test_id |-> dna_test_id, magnitude |-> magnitude]

DnaDocuments == [snps : SeqsUpTo([magnitude : InputMagnitudes], MaxChildren)]

\* the models parse_dna_json builds before it returns or raises
parse_dna_json(data, source_file) ==
    LET dna_test == DnaTest(new_id("dna_tests", 1),
                            IF source_file # "" THEN source_file ELSE "stdin")
        built == built_before_raise(data.snps, [i \in DOMAIN data.snps |->
                                                   validate_magnitude(data.snps[i].magnitude)])
    IN  [ok |-> Len(built) = Len(data.snps),
         dna_test |-> dna_test,
         snps |-> [i \in DOMAIN built |->
                      Snp(new_id("snps", i), dna_test.id, built[i].magnitude)]]

\* cli/databases/dna.py import
dna_cmd_import ==
    /\ CanImport
    /\ \E file \in Files, data \in DnaDocuments :
           /\ has_ids("dna_tests", 1) /\ has_ids("snps", Len(data.snps))
           /\ LET parsed == parse_dna_json(data, file)
                  rows == Rows("dna_tests", parsed.dna_test, "snps", parsed.snps, "", <<>>)
              IN  IF ~parsed.ok
                  THEN Import("dna import",
                              NotSaved(tables, "ValidationError", "exit", Len(parsed.snps)),
                              rows)
                  ELSE \E failAt \in 0..(1 + Len(parsed.snps)) :
                           LET session == get_session(tables, failAt)
                               flushed == session_add(session, "dna_tests", parsed.dna_test)
                               added == session_add_all(flushed, "snps", parsed.snps)
                           IN  Import("dna import", Saved(tables, added, "None"), rows)

\* BaseRepository.get_existing_by_source_file, as the test save_test makes of it
get_existing_by_source_file_never(db, model, source_file) == FALSE
get_existing_by_source_file(db, model, source_file) ==
    IF source_file = "" THEN FALSE
    ELSE \E i \in DOMAIN db[model] : db[model][i].source_file = source_file

\* DnaRepository.save_test
save_test(db, dna_test, snps, failAt) ==
    IF get_existing_by_source_file(db, "dna_tests", dna_test.source_file)
    THEN NotSaved(db, "none", "False", 0)
    ELSE LET session == get_session(db, failAt)
             flushed == session_add(session, "dna_tests", dna_test)
         IN  Saved(db, session_add_all(flushed, "snps", snps), "True")

\* the tests and SNP lists a caller can hand to save_test: a new id or a
\* stored one for the test, new ids for the SNPs, each SNP pointing at the
\* test or at another id
SnpLists(id, n) ==
    {[i \in 1..n |-> Snp(new_id("snps", i), owner[i], 3)] :
        owner \in [1..n -> {id, another(id)}]}

dna_save_test ==
    /\ CanImport
    /\ \E id \in ParentIds("dna_tests"), source_file \in Files, n \in 0..MaxChildren :
           /\ has_ids("snps", n)
           /\ \E snps \in SnpLists(id, n), failAt \in 0..(1 + n) :
                  LET dna_test == DnaTest(id, source_file)
                  IN  Import("save_test", save_test(tables, dna_test, snps, failAt),
                             Rows("dna_tests", dna_test, "snps", snps, "", <<>>))

(* ----------------------------- bloodwork -------------------------------- *)

LabReport(id, collected_date) == [id |-> id, collected_date |-> collected_date]
Panel(id, lab_report_id) == [id |-> id, lab_report_id |-> lab_report_id]
Biomarker(id, panel_id, code) == [id |-> id, panel_id |-> panel_id, code |-> code]

\* the biomarkers of the panels of a document in the order the loops of
\* parse_bloodwork_json meet them, each with the index of its panel
RECURSIVE biomarker_data(_, _)
biomarker_data(panels, i) ==
    IF i > Len(panels) THEN <<>>
    ELSE [j \in DOMAIN panels[i].biomarkers |->
             [panel |-> i, code |-> panels[i].biomarkers[j].code]]
         \o biomarker_data(panels, i + 1)

BloodworkDocuments ==
    {d \in [collected_date : 1..MaxDate,
            panels : SeqsUpTo([biomarkers : SeqsUpTo([code : InputBiomarkerCodes],
                                                     MaxChildren)], MaxChildren)] :
        1 + Len(d.panels) + Len(biomarker_data(d.panels, 1)) <= MaxImportRows}

\* the models parse_bloodwork_json builds before it returns or raises
parse_bloodwork_json(data) ==
    LET lab_report == LabReport(new_id("lab_reports", 1), data.collected_date)
        all == biomarker_data(data.panels, 1)
        built == built_before_raise(all, [i \in DOMAIN all |->
                                             validate_biomarker_code(all[i].code)])
        ok == Len(built) = Len(all)
        panels == IF ok THEN Len(data.panels) ELSE all[Len(built) + 1].panel
    IN  [ok |-> ok,
         lab_report |-> lab_report,
         panels |-> [i \in 1..panels |-> Panel(new_id("panels", i), lab_report.id)],
         biomarkers |-> [i \in DOMAIN built |->
                            Biomarker(new_id("biomarkers", i),
                                      new_id("panels", built[i].panel), built[i].code)]]

\* BloodworkRepository.save_report
save_report(db, report, panels, biomarkers, failAt) ==
    LET session == get_session(db, failAt)
        report_flushed == session_add(session, "lab_reports", report)
        panels_flushed == session_add_all(report_flushed, "panels", panels)
    IN  Saved(db, session_add_all(panels_flushed, "biomarkers", biomarkers), "None")

\* cli/databases/bloodwork.py import: the statements of save_report
bloodwork_cmd_import ==
    /\ CanImport
    /\ \E data \in BloodworkDocuments :
           /\ has_ids("lab_reports", 1)
           /\ has_ids("panels", Len(data.panels))
           /\ has_ids("biomarkers", Len(biomarker_data(data.panels, 1)))
           /\ LET parsed == parse_bloodwork_json(data)
                  rows == Rows("lab_reports", parsed.lab_report, "panels", parsed.panels,
                               "biomarkers", parsed.biomarkers)
              IN  IF ~parsed.ok
                  THEN Import("bloodwork import",
                              NotSaved(tables, "ValidationError", "exit",
                                       Len(parsed.biomarkers)),
                              rows)
                  ELSE \E failAt \in 0..(1 + Len(parsed.panels) + Len(parsed.biomarkers)) :
                           Import("bloodwork import",
                                  save_report(tables, parsed.lab_report, parsed.panels,
                                              parsed.biomarkers, failAt),
                                  rows)

\* the reports, panels and biomarkers a caller can hand to save_report: a
\* new id or a stored one for the report, new ids for the rest, each panel
\* pointing at the report or at another id, each biomarker at the first new
\* panel or at another id
PanelLists(id, n) ==
    {[i \in 1..n |-> Panel(new_id("panels", i), owner[i])] :
        owner \in [1..n -> {id, another(id)}]}
BiomarkerLists(panels, n) ==
    LET panel_id == IF panels # <<>> THEN panels[1].id ELSE MaxImportId
    IN  {[i \in 1..n |-> Biomarker(new_id("biomarkers", i), owner[i], "GLUCOSE")] :
            owner \in [1..n -> {panel_id, another(panel_id)}]}

bloodwork_save_report ==
    /\ CanImport
    /\ \E id \in ParentIds("lab_reports"), collected_date \in 1..MaxDate,
          n \in 0..MaxChildren, m \in 0..MaxChildren :
           /\ 1 + n + m <= MaxImportRows
           /\ has_ids("panels", n) /\ has_ids("biomarkers", m)
           /\ \E panels \in PanelLists(id, n), failAt \in 0..(1 + n + m) :
                  \E biomarkers \in BiomarkerLists(panels, m) :
                      LET report == LabReport(id, collected_date)
                      IN  Import("save_report",
                                 save_report(tables, report, panels, biomarkers, failAt),
                                 Rows("lab_reports", report, "panels", panels,
                                      "biomarkers", biomarkers))

\* BloodworkRepository.get_recent_biomarkers

RowsOf(rows) == {rows[i] : i \in DOMAIN rows}

\* JOIN panels, JOIN lab_reports: the biomarkers with a panel and a report,
\* and the report of one
has_report(db, biomarker) ==
    \E p \in RowsOf(db["panels"]), r \in RowsOf(db["lab_reports"]) :
        p.id = biomarker.panel_id /\ r.id = p.lab_report_id
report_of(db, biomarker) ==
    LET panel == CHOOSE p \in RowsOf(db["panels"]) : p.id = biomarker.panel_id
    IN  CHOOSE r \in RowsOf(db["lab_reports"]) : r.id = panel.lab_report_id

\* ORDER BY lab_reports.collected_date DESC: every order of the joined rows
\* the statement may return, rows of one date in any order
order_by_collected_date_asc(db) ==
    LET joined == SelectSeq(db["biomarkers"], LAMBDA b : has_report(db, b))
    IN  {s \in Permutations_of(joined) :
            \A i, j \in DOMAIN s :
                i < j => report_of(db, s[i]).collected_date
                         <= report_of(db, s[j]).collected_date}
order_by_collected_date_desc(db) ==
    LET joined == SelectSeq(db["biomarkers"], LAMBDA b : has_report(db, b))
    IN  {s \in Permutations_of(joined) :
            \A i, j \in DOMAIN s :
                i < j => report_of(db, s[i]).collected_date
                         >= report_of(db, s[j]).collected_date}

\* the loop over all_biomarkers: the first row of each code
RECURSIVE first_of_each_code(_, _)
first_of_each_code(all_biomarkers, seen_codes) ==
    IF all_biomarkers = <<>> THEN <<>>
    ELSE LET b == Head(all_biomarkers)
         IN  IF b.code \in seen_codes
             THEN first_of_each_code(Tail(all_biomarkers), seen_codes)
             ELSE <<b>> \o first_of_each_code(Tail(all_biomarkers),
                                              seen_codes \cup {b.code})

\* biomarkers.sort(key=lambda b: b.code): stable, equal codes keep their order
sort_by_code(biomarkers) ==
    CHOOSE s \in Permutations_of(biomarkers) :
        \A i, j \in DOMAIN s :
            i < j => /\ code_index(s[i].code) <= code_index(s[j].code)
                     /\ s[i].code = s[j].code =>
                            \E k, l \in DOMAIN biomarkers :
                                k < l /\ biomarkers[k] = s[i] /\ biomarkers[l] = s[j]

\* every list get_recent_biomarkers may return
get_recent_biomarkers(db) ==
    {sort_by_code(first_of_each_code(all_biomarkers, {})) :
        all_biomarkers \in order_by_collected_date_desc(db)}

(* ----------------------------- supplements ------------------------------ *)

SupplementLabel(id) == [id |-> id]
ProprietaryBlend(id, supplement_label_id) ==
    [id |-> id, supplement_label_id |-> supplement_label_id]
Ingredient(id, supplement_label_id, blend_id, type, code) ==
    [id |-> id, supplement_label_id |-> supplement_label_id, blend_id |-> blend_id,
     type |-> type, code |-> code]

\* the ingredients of the blends of a document in the order the loops of
\* parse_supplement_json meet them, each with the index of its blend
RECURSIVE blend_ingredient_data(_, _)
blend_ingredient_data(blends, i) ==
    IF i > Len(blends) THEN <<>>
    ELSE [j \in DOMAIN blends[i].ingredients |->
             [blend |-> i, type |-> "blend", code |-> blends[i].ingredients[j].code]]
         \o blend_ingredient_data(blends, i + 1)

\* all ingredients of a document in the order parse_supplement_json meets them
ingredient_data(data) ==
    [j \in DOMAIN data.active_ingredients |->
        [blend |-> 0, type |-> "active", code |-> data.active_ingredients[j].code]]
    \o [j \in DOMAIN data.other_ingredients |->
        [blend |-> 0, type |-> "other", code |-> data.other_ingredients[j].code]]
    \o blend_ingredient_data(data.proprietary_blends, 1)

IngredientData(n) == SeqsUpTo([code : InputIngredientCodes], n)

SupplementDocuments ==
    {d \in [active_ingredients : IngredientData(MaxChildren),
            other_ingredients : IngredientData(MaxOther),
            proprietary_blends : SeqsUpTo([ingredients : IngredientData(MaxChildren)],
                                          MaxBlends)] :
        1 + Len(d.proprietary_blends) + Len(ingredient_data(d)) <= MaxImportRows}

\* the models parse_supplement_json builds before it returns or raises
parse_supplement_json(data) ==
    LET label == SupplementLabel(new_id("supplement_labels", 1))
        all == ingredient_data(data)
        built == built_before_raise(all, [i \in DOMAIN all |->
                                             validate_ingredient_code(all[i].code)])
        ok == Len(built) = Len(all)
        blends == IF ok THEN Len(data.proprietary_blends) ELSE all[Len(built) + 1].blend
    IN  [ok |-> ok,
         label |-> label,
         blends |-> [i \in 1..blends |->
                        ProprietaryBlend(new_id("proprietary_blends", i), label.id)],
         ingredients |-> [i \in DOMAIN built |->
                            IF built[i].blend = 0
                            THEN Ingredient(new_id("ingredients", i), label.id, NULL,
                                            built[i].type, built[i].code)
                            ELSE Ingredient(new_id("ingredients", i), NULL,
                                            new_id("proprietary_blends", built[i].blend),
                                            built[i].type, built[i].code)]]

\* SupplementRepository.save_label
save_label(db, label, blends, ingredients, failAt) ==
    LET session == get_session(db, failAt)
        label_flushed == session_add(session, "supplement_labels", label)
        blends_flushed == session_add_all(label_flushed, "proprietary_blends", blends)
    IN  Saved(db, session_add_all(blends_flushed, "ingredients", ingredients), "None")

\* cli/databases/supplement.py import
supplement_cmd_import ==
    /\ CanImport
    /\ \E data \in SupplementDocuments :
           /\ has_ids("supplement_labels", 1)
           /\ has_ids("proprietary_blends", Len(data.proprietary_blends))
           /\ has_ids("ingredients", Len(ingredient_data(data)))
           /\ LET parsed == parse_supplement_json(data)
                  rows == Rows("supplement_labels", parsed.label,
                               "proprietary_blends", parsed.blends,
                               "ingredients", parsed.ingredients)
              IN  IF ~parsed.ok
                  THEN Import("supplement import",
                              NotSaved(tables, "ValidationError", "exit",
                                       Len(parsed.ingredients)),
                              rows)
                  ELSE \E failAt \in 0..(1 + Len(parsed.blends) + Len(parsed.ingredients)) :
                           Import("supplement import",
                                  save_label(tables, parsed.label, parsed.blends,
                                             parsed.ingredients, failAt),
                                  rows)

\* the labels, blends and ingredients a caller can hand to save_label: a new
\* id or a stored one for the label, new ids for the rest, each blend
\* pointing at the label or at another id, each ingredient at the label, at
\* the first new blend or at another label
BlendLists(id, n) ==
    {[i \in 1..n |-> ProprietaryBlend(new_id("proprietary_blends", i), owner[i])] :
        owner \in [1..n -> {id, another(id)}]}
IngredientLists(id, blends, n) ==
    LET owners ==
            {[supplement_label_id |-> id, blend_id |-> NULL, type |-> "active"],
             [supplement_label_id |-> another(id), blend_id |-> NULL, type |-> "active"]}
            \cup (IF blends = <<>> THEN {}
                  ELSE {[supplement_label_id |-> NULL, blend_id |-> blends[1].id,
                         type |-> "blend"]})
    IN  {[i \in 1..n |-> Ingredient(new_id("ingredients", i), owner[i].supplement_label_id,
                                    owner[i].blend_id, owner[i].type, "VITAMIN_D")] :
            owner \in [1..n -> owners]}

supplement_save_label ==
    /\ CanImport
    /\ \E id \in ParentIds("supplement_labels"), n \in 0..MaxBlends, m \in 0..MaxChildren :
           /\ 1 + n + m <= MaxImportRows
           /\ has_ids("proprietary_blends", n) /\ has_ids("ingredients", m)
           /\ \E blends \in BlendLists(id, n), failAt \in 0..(1 + n + m) :
                  \E ingredients \in IngredientLists(id, blends, m) :
                      LET label == SupplementLabel(id)
                      IN  Import("save_label",
                                 save_label(tables, label, blends, ingredients, failAt),
                                 Rows("supplement_labels", label, "proprietary_blends", blends,
                                      "ingredients", ingredients))

(* ------------------------------ protocols ------------------------------- *)

SupplementProtocol(id) == [id |-> id]
ProtocolSupplement(id, protocol_id, type, frequency) ==
    [id |-> id, protocol_id |-> protocol_id, type |-> type, frequency |-> frequency]

\* the supplements of a document in the order parse_protocol_json meets them
supplement_data(data) ==
    [j \in DOMAIN data.supplements |->
        [type |-> "scheduled", frequency |-> data.supplements[j].frequency]]
    \o [j \in DOMAIN data.own_supplements |->
        [type |-> "own", frequency |-> data.own_supplements[j].frequency]]

ProtocolDocuments ==
    {d \in [supplements : SeqsUpTo([frequency : InputFrequencies], MaxChildren),
            own_supplements : SeqsUpTo([frequency : InputFrequencies], MaxChildren)] :
        1 + Len(supplement_data(d)) <= MaxImportRows}

\* the models parse_protocol_json builds before it returns or raises
parse_protocol_json(data) ==
    LET protocol == SupplementProtocol(new_id("supplement_protocols", 1))
        all == supplement_data(data)
        built == built_before_raise(all, [i \in DOMAIN all |-> all[i].frequency \in Frequency])
    IN  [ok |-> Len(built) = Len(all),
         protocol |-> protocol,
         supplements |-> [i \in DOMAIN built |->
                            ProtocolSupplement(new_id("protocol_supplements", i),
                                               protocol.id, built[i].type,
                                               built[i].frequency)]]

\* SupplementProtocolRepository.save_protocol
save_protocol(db, protocol, supplements, failAt) ==
    LET session == get_session(db, failAt)
        flushed == session_add(session, "supplement_protocols", protocol)
    IN  Saved(db, session_add_all(flushed, "protocol_supplements", supplements), "None")

\* cli/databases/supplement_protocol.py import: the statements of save_protocol
protocol_cmd_import ==
    /\ CanImport
    /\ \E data \in ProtocolDocuments :
           /\ has_ids("supplement_protocols", 1)
           /\ has_ids("protocol_supplements", Len(supplement_data(data)))
           /\ LET parsed == parse_protocol_json(data)
                  rows == Rows("supplement_protocols", parsed.protocol,
                               "protocol_supplements", parsed.supplements, "", <<>>)
              IN  IF ~parsed.ok
                  THEN Import("protocol import",
                              NotSaved(tables, "ValidationError", "exit",
                                       Len(parsed.supplements)),
                              rows)
                  ELSE \E failAt \in 0..(1 + Len(parsed.supplements)) :
                           Import("protocol import",
                                  save_protocol(tables, parsed.protocol,
                                                parsed.supplements, failAt),
                                  rows)

\* the protocols and supplements a caller can hand to save_protocol
ProtocolSupplementLists(id, n) ==
    {[i \in 1..n |-> ProtocolSupplement(new_id("protocol_supplements", i), owner[i],
                                        "scheduled", "daily")] :
        owner \in [1..n -> {id, another(id)}]}

protocol_save_protocol ==
    /\ CanImport
    /\ \E id \in ParentIds("supplement_protocols"), n \in 0..MaxChildren :
           /\ has_ids("protocol_supplements", n)
           /\ \E supplements \in ProtocolSupplementLists(id, n), failAt \in 0..(1 + n) :
                  LET protocol == SupplementProtocol(id)
                  IN  Import("save_protocol",
                             save_protocol(tables, protocol, supplements, failAt),
                             Rows("supplement_protocols", protocol,
                                  "protocol_supplements", supplements, "", <<>>))

ImportNext ==
    \/ dna_cmd_import
    \/ dna_save_test
    \/ bloodwork_cmd_import
    \/ bloodwork_save_report
    \/ supplement_cmd_import
    \/ supplement_save_label
    \/ protocol_cmd_import
    \/ protocol_save_protocol

ImportSpec == Init /\ [][ImportNext]_vars

(* ====================== properties of the ledger ======================= *)

\* rows of the knowledge table with a given id, and the rows a fact owns
RowsWithId(id) == {i \in 1..Len(knowledge) : knowledge[i].id = id}
TagsOwnedBy(id) == {i \in 1..Len(knowledge_tags) : knowledge_tags[i].knowledge_id = id}
LinksOwnedBy(id) == {i \in 1..Len(knowledge_links) : knowledge_links[i].knowledge_id = id}

\* no row of the fact the last command built is in the store
NothingOfNew == RowsWithId(last.id) = {} /\ TagsOwnedBy(last.id) = {} /\ LinksOwnedBy(last.id) = {}

\* every listing ListActive can return, over both repositories
ListActiveResults == get_active \cup {list_active}

\* the ids of the rows of the one table a link kind is mapped to
RowsOfKind(link_type) ==
    CASE link_type = "snp" -> targets["snps"]
      [] link_type = "biomarker" -> targets["biomarkers"]
      [] link_type = "ingredient" -> targets["ingredients"]
      [] link_type = "supplement" -> targets["supplement_labels"]
      [] link_type = "protocol" -> targets["supplement_protocols"]
      [] link_type = "knowledge" -> {knowledge[i].id : i \in 1..Len(knowledge)}

\* C1: after a successful Supersede the old fact is readable and Deprecated,
\* the new fact is readable, Active and supersedes the old one, and every
\* active listing holds the new id and not the old id.
C1_SupersedePostcondition ==
    (last.op = "supersede" /\ last.error = "none") =>
        /\ \A get \in {get_by_id(last.old_id), get_knowledge(last.old_id)} :
              get # None /\ get.id = last.old_id /\ get.status = DEPRECATED
        /\ \A get \in {get_by_id(last.id), get_knowledge(last.id)} :
              /\ get # None
              /\ get.id = last.id
              /\ get.status = ACTIVE
              /\ get.supersedes_id = last.old_id
        /\ \A listing \in ListActiveResults :
              last.id \in IdsOf(listing) /\ last.old_id \notin IdsOf(listing)

C1_Witness ==
    /\ last.op = "supersede"
    /\ last.error = "none"
    /\ last.old_status = ACTIVE
    /\ Len(knowledge) >= 2

\* the facts whose stored status is Deprecated
DeprecatedIds == {knowledge[i].id : i \in {j \in 1..Len(knowledge) : knowledge[j].status = DEPRECATED}}

\* C2: a fact that is Deprecated is Deprecated in every later state, also
\* when a later Supersede names it as old_id again.
C2_DeprecatedNeverReverts == [][DeprecatedIds \subseteq DeprecatedIds']_vars

\* a Supersede has succeeded on an entry that was Deprecated already
C2_Witness ==
    /\ last.op = "supersede"
    /\ last.error = "none"
    /\ last.old_status = DEPRECATED
    /\ last.old_id \in DeprecatedIds

\* C3: a Supersede whose old_id names no stored fact fails with NotFound and
\* leaves every table as it was; the replacement, its tags and its links
\* are absent afterwards.
C3_SupersedeNotFoundFailsClosed ==
    [][(last'.op = "supersede" /\ RowsWithId(last'.old_id) = {}) =>
          /\ last'.error = "NotFound"
          /\ UNCHANGED <<knowledge, knowledge_tags, knowledge_links>>
          /\ NothingOfNew']_vars

C3_Witness ==
    /\ last.op = "supersede"
    /\ last.error = "NotFound"
    /\ Len(knowledge) >= 1
    /\ RowsWithId(last.old_id) = {}

C5_CreateAtomic ==
    (last.op = "create") =>
        /\ (last.error # "none") => NothingOfNew
        /\ (RowsWithId(last.id) # {}) =>
              /\ Cardinality(TagsOwnedBy(last.id)) = Len(last.tags)
              /\ Cardinality(LinksOwnedBy(last.id)) = Len(last.links)

\* C6: a Supersede that fails leaves the old fact in the status it had and
\* no row of the replacement, its tags or its links.
C6_SupersedeAtomic ==
    (last.op = "supersede" /\ last.error # "none") =>
        /\ NothingOfNew
        /\ \A i \in RowsWithId(last.old_id) : knowledge[i].status = last.old_status

\* C7: ListActive returns exactly the Active facts, each once, newest first.
C7_ListActiveExactAndOrdered ==
    \A listing \in ListActiveResults :
        /\ IdsOf(listing) = {knowledge[i].id : i \in {j \in 1..Len(knowledge) : knowledge[j].status = ACTIVE}}
        /\ Len(listing) = Cardinality(IdsOf(listing))
        /\ \A i, j \in 1..Len(listing) :
              i < j => listing[i].created_at >= listing[j].created_at

\* C8: a link passes the existence check exactly when a row with its target
\* id is in the one table its kind is mapped to.
C8_LinkCheckUsesMappedTable ==
    \A link_type \in LinkType, target_id \in Ids :
        validate_link_target_exists(link_type, target_id)
            <=> target_id \in RowsOfKind(link_type)

\* an id is in one table only, passes for that kind and is rejected for
\* another, and a link into a foreign table has been stored
C8_Witness ==
    /\ \E a, b \in LinkType, id \in Ids :
          /\ id \in RowsOfKind(a)
          /\ id \notin RowsOfKind(b)
          /\ validate_link_target_exists(a, id)
          /\ ~validate_link_target_exists(b, id)
    /\ \E i \in 1..Len(knowledge_links) : knowledge_links[i].link_type # "knowledge"

\* the ids GetByID finds a fact for
PresentIds == {id \in Ids : get_by_id(id) # None /\ get_knowledge(id) # None}

\* C9: an id GetByID has found a fact for is found in every later state.
C9_FactsNeverRemoved == [][PresentIds \subseteq PresentIds']_vars

C9_Witness ==
    /\ last.op = "supersede"
    /\ last.error = "none"
    /\ last.old_id \in PresentIds
    /\ last.old_id \in DeprecatedIds
    /\ Cardinality(PresentIds) = Len(knowledge)

\* C10: GetByID returns the stored fact of every stored id, Active or
\* Deprecated, and the absent value for every other id.
C10_GetByIdTotal ==
    \A id \in Ids :
        /\ \A i \in RowsWithId(id) :
              get_by_id(id) = knowledge[i] /\ get_knowledge(id) = knowledge[i]
        /\ (RowsWithId(id) = {}) => (get_by_id(id) = None /\ get_knowledge(id) = None)

C10_Witness ==
    /\ \E id \in DeprecatedIds : get_by_id(id) # None /\ get_by_id(id).status = DEPRECATED
    /\ \E id \in Ids : RowsWithId(id) = {} /\ get_by_id(id) = None
    /\ \E i \in 1..Len(knowledge) : knowledge[i].status = ACTIVE

\* every answer FindByTag can give, over both repositories
FindByTagResults(tag) == get_by_tag(tag) \cup {datatypes_get_by_tag(tag)}

\* the facts that own at least one tag row with exactly this value
OwnersOfTag(tag) ==
    {id \in IdsOf(knowledge) :
        \E i \in TagsOwnedBy(id) : knowledge_tags[i].tag = tag}

\* C11: FindByTag(v) returns the stored fact of every owner of a tag row with
\* value v, whatever its status, no other fact, and each owner once, also
\* when it owns several tag rows with value v.
C11_FindByTagExactDistinct ==
    \A tag \in TagValues : \A found \in FindByTagResults(tag) :
        /\ IdsOf(found) = OwnersOfTag(tag)
        /\ Len(found) = Cardinality(OwnersOfTag(tag))
        /\ \A n \in 1..Len(found) : \E i \in RowsWithId(found[n].id) : found[n] = knowledge[i]

\* a fact owns two tag rows with the same value and FindByTag answers with it,
\* while FindByTag of the other value answers with nothing
C11_Witness ==
    \E id \in IdsOf(knowledge), tag \in TagValues :
        /\ Cardinality({i \in TagsOwnedBy(id) : knowledge_tags[i].tag = tag}) >= 2
        /\ \A found \in FindByTagResults(tag) : IdsOf(found) = {id}
        /\ \A other \in TagValues \ {tag} :
              \A found \in FindByTagResults(other) : found = <<>>

\* every answer FindByLink can give, over both repositories
FindByLinkResults(link_type, target_id) ==
    get_by_link(link_type, target_id) \cup {get_linked_to(link_type, target_id)}

\* the facts that own a link row with exactly this kind and this target
OwnersOfLink(link_type, target_id) ==
    {id \in IdsOf(knowledge) :
        \E i \in LinksOwnedBy(id) :
            /\ knowledge_links[i].link_type = link_type
            /\ knowledge_links[i].target_id = target_id}

\* C12: FindByLink(k, x) returns exactly the owners of a link row with kind k
\* and target x, each once; an owner of a link to x under another kind only
\* is not returned.
C12_FindByLinkBothFieldsMatch ==
    \A link_type \in LinkType, target_id \in Ids :
        \A found \in FindByLinkResults(link_type, target_id) :
            /\ IdsOf(found) = OwnersOfLink(link_type, target_id)
            /\ Len(found) = Cardinality(OwnersOfLink(link_type, target_id))
            /\ \A n \in 1..Len(found) :
                  \E i \in RowsWithId(found[n].id) : found[n] = knowledge[i]

\* a stored link is found under its own kind and not under another kind with
\* the same target id
C12_Witness ==
    \E i \in 1..Len(knowledge_links), other \in LinkType :
        LET kl == knowledge_links[i]
        IN  /\ other # kl.link_type
            /\ \A found \in FindByLinkResults(kl.link_type, kl.target_id) :
                  kl.knowledge_id \in IdsOf(found)
            /\ \A found \in FindByLinkResults(other, kl.target_id) :
                  kl.knowledge_id \notin IdsOf(found)

\* every answer GetTags and GetLinks can give, over both repositories
GetTagsResults(id) == get_tags_by_knowledge(id) \cup get_tags_for_knowledge(id)
GetLinksResults(id) == get_links_by_knowledge(id) \cup get_links_for_knowledge(id)

\* t lists the rows of table at the indices in owned, each once
ListsExactly(t, table, owned) ==
    \E f \in [1..Len(t) -> owned] :
        /\ \A a, b \in 1..Len(t) : f[a] = f[b] => a = b
        /\ \A i \in owned : \E a \in 1..Len(t) : f[a] = i
        /\ \A a \in 1..Len(t) : t[a] = table[f[a]]

\* C13: GetTags(id) lists exactly the tag rows id owns in ascending tag
\* value, GetLinks(id) lists exactly the link rows id owns in ascending link
\* kind, and both answer with the empty list for an id that owns none or
\* names no fact.
C13_GetTagsGetLinksOrdered ==
    \A id \in Ids :
        /\ GetTagsResults(id) # {} /\ GetLinksResults(id) # {}
        /\ \A t \in GetTagsResults(id) :
              /\ ListsExactly(t, knowledge_tags, TagsOwnedBy(id))
              /\ \A a, b \in 1..Len(t) : a < b => collate(t[a].tag) <= collate(t[b].tag)
        /\ \A l \in GetLinksResults(id) :
              /\ ListsExactly(l, knowledge_links, LinksOwnedBy(id))
              /\ \A a, b \in 1..Len(l) :
                    a < b => collate(l[a].link_type) <= collate(l[b].link_type)
        /\ (TagsOwnedBy(id) = {}) => GetTagsResults(id) = {<<>>}
        /\ (LinksOwnedBy(id) = {}) => GetLinksResults(id) = {<<>>}

\* a fact stored its tags in descending value and GetTags lists them
\* ascending, while an id that names no fact gets two empty lists
C13_Witness ==
    /\ \E id \in IdsOf(knowledge) :
          /\ \E a, b \in TagsOwnedBy(id) :
                a < b /\ collate(knowledge_tags[a].tag) > collate(knowledge_tags[b].tag)
          /\ \A t \in GetTagsResults(id) :
                Len(t) = 2 /\ collate(t[1].tag) < collate(t[2].tag)
    /\ \E id \in Ids \ IdsOf(knowledge) :
          GetTagsResults(id) = {<<>>} /\ GetLinksResults(id) = {<<>>}

\* a fact stored two links in descending kind and GetLinks lists them ascending
LinksListedAscending ==
    \E id \in IdsOf(knowledge) :
        /\ \E a, b \in LinksOwnedBy(id) :
              a < b /\ collate(knowledge_links[a].link_type) > collate(knowledge_links[b].link_type)
        /\ \A l \in GetLinksResults(id) :
              Len(l) = 2 /\ collate(l[1].link_type) < collate(l[2].link_type)

\* the last step ran Create or Supersede
LastIsCommand == last.op \in {"create", "supersede"}

\* C14: the validator accepts a confidence exactly when it lies in 0.0..1.0,
\* both ends included; a command given a confidence outside that range
\* stores nothing of its fact and, once it reaches the parser, ends with
\* ValidationError; a stored fact carries the confidence of its document
\* unchanged, so every stored confidence lies in 0.0..1.0.
C14_ConfidenceBounds ==
    /\ \A v \in EdgeConfidences : validate_confidence(v) <=> (0 <= v /\ v <= 10)
    /\ (LastIsCommand /\ (last.confidence < 0 \/ last.confidence > 10)) =>
          /\ NothingOfNew
          /\ last.error \in {"ValidationError", "NotFound"}
    /\ (LastIsCommand /\ 0 <= last.confidence /\ last.confidence <= 10) =>
          last.error # "ValidationError"
    /\ LastIsCommand =>
          \A i \in RowsWithId(last.id) : knowledge[i].confidence = last.confidence
    /\ \A i \in 1..Len(knowledge) :
          0 <= knowledge[i].confidence /\ knowledge[i].confidence <= 10

\* a fact with confidence 0.0 or 1.0 is stored and the last command, given a
\* confidence out of range, ended with ValidationError
C14_Witness ==
    /\ \E i \in 1..Len(knowledge) : knowledge[i].confidence \in {0, 10}
    /\ LastIsCommand
    /\ last.error = "ValidationError"
    /\ (last.confidence < 0 \/ last.confidence > 10)

\* C15: no stored fact has an empty summary or an empty content.
C15_EmptyTextRejected ==
    \A i \in 1..Len(knowledge) : knowledge[i].summary # "" /\ knowledge[i].content # ""

\* the facts of the store that the step just taken added
Added == {i \in 1..Len(knowledge') : knowledge'[i].id \notin IdsOf(knowledge)}

C17_NoDanglingSupersedes ==
    \A i \in 1..Len(knowledge) :
        knowledge[i].supersedes_id # NULL =>
            \E j \in 1..(i - 1) : knowledge[j].id = knowledge[i].supersedes_id

\* a Create whose document names an earlier fact has stored its fact
C17_Witness ==
    /\ last.op = "create"
    /\ \E i \in RowsWithId(last.id) :
          /\ knowledge[i].supersedes_id # NULL
          /\ knowledge[i].supersedes_id \in IdsOf(knowledge)

\* the fact a fact supersedes, as a set of at most one id
supersedes_of(id) ==
    {knowledge[i].supersedes_id : i \in {j \in RowsWithId(id) : knowledge[j].supersedes_id # NULL}}

\* the facts reached from id by following supersedes_id 1..n times
RECURSIVE Predecessors(_, _)
Predecessors(id, n) ==
    IF n = 0 THEN {}
    ELSE LET near == Predecessors(id, n - 1)
         IN  near \cup supersedes_of(id) \cup UNION {supersedes_of(p) : p \in near}

\* C18: no fact reaches itself by following supersedes_id one or more times.
C18_SupersedesAcyclic ==
    \A id \in IdsOf(knowledge) : id \notin Predecessors(id, Len(knowledge))

\* a chain of three facts: the third supersedes the second, the second the first
C18_Witness ==
    \E a, b, c \in IdsOf(knowledge) :
        /\ a # b /\ b # c /\ a # c
        /\ supersedes_of(c) = {b}
        /\ supersedes_of(b) = {a}
        /\ supersedes_of(a) = {}

\* C19: a fact stored by Create has no supersedes_id, and a fact is stored
\* with a supersedes_id by Supersede only.
C19_CreateHasEmptySupersedes ==
    [][\A i \in Added :
          /\ last'.op = "create" => knowledge'[i].supersedes_id = NULL
          /\ knowledge'[i].supersedes_id # NULL => last'.op = "supersede"]_vars

\* C20: whatever supersedes_id the document of a Supersede carries, the
\* replacement is stored, read back and handed back with supersedes_id =
\* old_id.
C20_SupersedeOverridesReference ==
    (last.op = "supersede" /\ RowsWithId(last.id) # {}) =>
        /\ \A i \in RowsWithId(last.id) : knowledge[i].supersedes_id = last.old_id
        /\ get_by_id(last.id).supersedes_id = last.old_id
        /\ get_knowledge(last.id).supersedes_id = last.old_id
        /\ last.supersedes_id = last.old_id

\* a Supersede of an old_id that no document names (documents carry no
\* supersedes_id or the id of the first fact) has stored its replacement
C20_Witness ==
    /\ last.op = "supersede"
    /\ last.error = "none"
    /\ last.old_id \notin InputSupersedes
    /\ \E i \in RowsWithId(last.id) : knowledge[i].supersedes_id = last.old_id
    /\ \E f \in JsonFact : f.supersedes_id \in IdsOf(knowledge) \ {last.old_id}

\* the tag values of tag rows, and the (link_type, target_id) pairs of link rows
TagValuesOf(rows) == [i \in 1..Len(rows) |-> rows[i].tag]
LinkPairsOf(rows) ==
    [i \in 1..Len(rows) |-> [link_type |-> rows[i].link_type, target_id |-> rows[i].target_id]]

C22_TagsAndLinksOwned ==
    /\ \A i \in 1..Len(knowledge_tags) : knowledge_tags[i].knowledge_id \in IdsOf(knowledge)
    /\ \A i \in 1..Len(knowledge_links) : knowledge_links[i].knowledge_id \in IdsOf(knowledge)
    /\ \A id \in Ids :
          /\ \A tag \in TagValues :
                LET after == insert_tag(knowledge, knowledge_tags, KnowledgeTag(id, tag))
                IN  IF id \in IdsOf(knowledge)
                    THEN after = Append(knowledge_tags, KnowledgeTag(id, tag))
                    ELSE after = knowledge_tags
          /\ \A link \in LinkData :
                LET after == insert_link(knowledge, knowledge_links, KnowledgeLink(id, link))
                IN  IF id \in IdsOf(knowledge)
                    THEN after = Append(knowledge_links, KnowledgeLink(id, link))
                    ELSE after = knowledge_links

\* a fact owns a tag row and a link row, and some id names no fact
C22_Witness ==
    /\ \E id \in IdsOf(knowledge) : TagsOwnedBy(id) # {} /\ LinksOwnedBy(id) # {}
    /\ Ids \ IdsOf(knowledge) # {}

C24_SupersedeOfDeprecatedSucceeds ==
    [][(last'.op = "supersede" /\ last'.old_id \in DeprecatedIds) =>
          /\ last'.error # "NotFound"
          /\ last'.old_status = DEPRECATED
          /\ (last'.error = "none") =>
                \E i \in 1..Len(knowledge') :
                    /\ knowledge'[i].id = last'.id
                    /\ knowledge'[i].id \notin IdsOf(knowledge)
                    /\ knowledge'[i].status = ACTIVE
                    /\ knowledge'[i].supersedes_id = last'.old_id]_vars

\* two distinct Active facts supersede the same fact
C24_Witness ==
    \E i, j \in 1..Len(knowledge) :
        /\ i # j
        /\ knowledge[i].status = ACTIVE /\ knowledge[j].status = ACTIVE
        /\ knowledge[i].supersedes_id # NULL
        /\ knowledge[i].supersedes_id = knowledge[j].supersedes_id

\* C25: a successful Supersede adds one knowledge row and leaves every row
\* that was there in place and unchanged, but for the status of the row
\* named by old_id; the tag rows and link rows that were there are unchanged
\* and every added one is owned by the replacement.
C25_SupersedeFrame ==
    [][(last'.op = "supersede" /\ last'.error = "none") =>
          /\ Len(knowledge') = Len(knowledge) + 1
          /\ \A i \in 1..Len(knowledge) :
                knowledge'[i] =
                    IF knowledge[i].id = last'.old_id
                    THEN [knowledge[i] EXCEPT !.status = DEPRECATED]
                    ELSE knowledge[i]
          /\ Cardinality({i \in 1..Len(knowledge') : knowledge'[i].id = last'.old_id}) = 1
          /\ Len(knowledge_tags') >= Len(knowledge_tags)
          /\ Len(knowledge_links') >= Len(knowledge_links)
          /\ \A i \in 1..Len(knowledge_tags') :
                IF i <= Len(knowledge_tags) THEN knowledge_tags'[i] = knowledge_tags[i]
                ELSE knowledge_tags'[i].knowledge_id = last'.id
          /\ \A i \in 1..Len(knowledge_links') :
                IF i <= Len(knowledge_links) THEN knowledge_links'[i] = knowledge_links[i]
                ELSE knowledge_links'[i].knowledge_id = last'.id]_vars

\* a Supersede has succeeded on a fact that owns a tag or a link
C25_Witness ==
    /\ last.op = "supersede"
    /\ last.error = "none"
    /\ last.old_status = ACTIVE
    /\ TagsOwnedBy(last.old_id) \cup LinksOwnedBy(last.old_id) # {}

\* C29: every fact that a stored fact names in its supersedes_id is Deprecated.
C29_NoActiveFactHasSuccessor ==
    \A i \in 1..Len(knowledge) :
        knowledge[i].supersedes_id # NULL =>
            \A j \in RowsWithId(knowledge[i].supersedes_id) : knowledge[j].status = DEPRECATED

\* C30: after a successful Supersede GetTags and GetLinks of the replacement
\* hold exactly the tag values and link pairs of the document, each row owned
\* by the replacement; a supplied tag is stored under the replacement's id
\* whatever owner it came with.
C30_SupersedeBindsTagsAndLinks ==
    (last.op = "supersede" /\ last.error = "none") =>
        /\ \A t \in GetTagsResults(last.id) :
              /\ TagValuesOf(t) \in Permutations_of(last.tags)
              /\ \A i \in 1..Len(t) : t[i].knowledge_id = last.id
        /\ \A l \in GetLinksResults(last.id) :
              /\ LinkPairsOf(l) \in Permutations_of(last.links)
              /\ \A i \in 1..Len(l) : l[i].knowledge_id = last.id
        /\ \A owner \in Ids, tag \in TagValues :
              tag_with_new_id(KnowledgeTag(owner, tag), last.id) = KnowledgeTag(last.id, tag)
        /\ \A owner \in Ids, link \in LinkData :
              link_with_new_id(KnowledgeLink(owner, link), last.id) = KnowledgeLink(last.id, link)

\* a Supersede given a tag or a link has stored it under its replacement
C30_Witness ==
    /\ last.op = "supersede"
    /\ last.error = "none"
    /\ Len(last.tags) + Len(last.links) >= 1
    /\ TagsOwnedBy(last.id) \cup LinksOwnedBy(last.id) # {}
    /\ TagsOwnedBy(last.old_id) \cup LinksOwnedBy(last.old_id) = {}

\* a Supersede given no tags has stored its replacement, the old fact owns a
\* tag, and GetTags of the replacement is empty
OldTagsNotCopied ==
    /\ last.op = "supersede"
    /\ last.error = "none"
    /\ TagsOwnedBy(last.old_id) # {}
    /\ GetTagsResults(last.id) = {<<>>}

(* ==================== properties of the imports ======================== *)

ImportOps ==
    {"dna import", "save_test", "bloodwork import", "save_report",
     "supplement import", "save_label", "protocol import", "save_protocol"}

\* the last step was an import that wrote its rows
Committed(outcome) ==
    outcome.op \in ImportOps /\ outcome.error = "none" /\ outcome.returned # "False"

\* C26: an import is all or nothing: a step of an import either commits,
\* and then every table holds what it held followed by all the rows of the
\* import, the parent among them, or it ends on a validation error, a
\* rejected row or an early return and leaves every table as it was.
C26_ImportAllOrNothing ==
    [][last'.op \in ImportOps =>
          IF Committed(last')
          THEN \A t \in ImportTables : tables'[t] = tables[t] \o last'.rows[t]
          ELSE tables' = tables]_vars

\* a child row was rejected after the parent row had been flushed
C26_Witness ==
    /\ last.op \in ImportOps
    /\ last.error = "StoreError"
    /\ last.progress >= 2

\* a validator raised on a child after an earlier child had passed
ChildInvalidAfterValidChild ==
    last.op \in ImportOps /\ last.error = "ValidationError" /\ last.progress >= 1

\* C27: at every store, save_test of a test whose non-empty source_file is
\* stored returns False and changes nothing; of any other test it returns
\* True with the test and all its SNPs appended, unless the store rejects a
\* row; and after a save that returned, the same save changes nothing.
C27_SaveTestIdempotent ==
    \A id \in ImportIds, source_file \in Files, n \in 0..MaxChildren :
        has_ids("snps", n) =>
            \A snps \in SnpLists(id, n) :
                LET dna_test == DnaTest(id, source_file)
                    stored == /\ source_file # ""
                              /\ \E t \in RowsOf(tables["dna_tests"]) :
                                    t.source_file = source_file
                    once == save_test(tables, dna_test, snps, 0)
                    twice == save_test(once.tables, dna_test, snps, 0)
                IN  /\ stored => once.returned = "False" /\ once.tables = tables
                    /\ ~stored /\ once.error = "none" =>
                          /\ once.returned = "True"
                          /\ once.tables =
                                 [tables EXCEPT !["dna_tests"] = Append(@, dna_test),
                                                !["snps"] = @ \o snps]
                    /\ source_file # "" /\ once.error = "none" =>
                          twice.returned = "False" /\ twice.tables = once.tables

\* save_test found the source_file of its test in the store and returned False
C27_Witness ==
    /\ last.op = "save_test"
    /\ last.returned = "False"
    /\ \E t \in RowsOf(tables["dna_tests"]) : t.source_file # ""
    /\ tables["snps"] # <<>>

\* C28: every list get_recent_biomarkers may return holds exactly one
\* biomarker for each code in the biomarkers table, taken from a report whose
\* collected_date is the latest of the reports with that code, in ascending
\* order of code; with no biomarkers it is the empty list.
C28_RecentBiomarkers ==
    LET biomarkers == RowsOf(tables["biomarkers"])
        codes == {b.code : b \in biomarkers}
    IN  \A recent \in get_recent_biomarkers(tables) :
            /\ {recent[i].code : i \in DOMAIN recent} = codes
            /\ Len(recent) = Cardinality(codes)
            /\ \A i \in DOMAIN recent :
                  /\ recent[i] \in biomarkers
                  /\ \A b \in biomarkers :
                        b.code = recent[i].code =>
                            report_of(tables, b).collected_date
                            <= report_of(tables, recent[i]).collected_date
            /\ \A i, j \in DOMAIN recent :
                  i < j => code_index(recent[i].code) < code_index(recent[j].code)
            /\ biomarkers = {} => recent = <<>>

\* two reports of different dates hold the same code, and the store holds
\* a second code
C28_Witness ==
    /\ \E a, b \in RowsOf(tables["biomarkers"]) :
          /\ a.code = b.code
          /\ report_of(tables, a).collected_date < report_of(tables, b).collected_date
    /\ Cardinality({b.code : b \in RowsOf(tables["biomarkers"])}) >= 2

\* the store holds no biomarker
NoBiomarkers == tables["biomarkers"] = <<>> /\ tables["lab_reports"] # <<>>

====
